---- MODULE Spec2Model ----
(***************************************************************************)
(* Model of src/environment.py: class Environment (construction with the   *)
(* obstacle rejection loop, and make_action).                              *)
(*                                                                         *)
(* Numbers.  The program computes in floating point; the model computes    *)
(* in exact fixed point, on inputs for which every product is exact:       *)
(*   - acceleration and steering_angle are integers;                       *)
(*   - dT and car_speed are held in halves (dT = 0.5 is 1), scale Half;    *)
(*   - car_rotation is held in quarter degrees (Half * Half);              *)
(*   - sin and cos are held in hundredths, scale Trig;                     *)
(*   - positions and lengths are held in units of 1/400, scale             *)
(*     Unit = Half * Half * Trig, so that x - sin * speed * dT is an       *)
(*     integer expression.                                                 *)
(* The module params (screen_size, the sizes, num_obstacles, the rewards)  *)
(* is not part of the sources; its values here are chosen.                 *)
(***************************************************************************)
EXTENDS Integers, Sequences, FiniteSets

\* ------------------------------------------------------------ scales
Half == 2
Trig == 100
Unit == Half * Half * Trig

\* ------------------------------------------------------------ bounds
\* make_action calls explored after construction
MaxCalls == 2
\* largest num_obstacles argument passed to the constructor
MaxArgObstacles == 3
\* make_action calls explored from a state written into the object directly
MaxInjectedCalls == 1

\* ------------------------------------------------------------ params
screen_w == 48
screen_h == 64
screen_size == <<screen_w * Unit, screen_h * Unit>>
car_size == <<3, 4>>
obstacle_size == <<3, 4>>
goal_size == <<4, 3>>
params_num_obstacles == 2
reward_collision == -100
reward_goal == 100
reward_timestep == -1

\* the value of a tuple-valued attribute or local that does not exist (yet,
\* or any more); a number that does not exist yet is held as 0, and is not
\* read before it is assigned
Unset == <<>>

\* np.random.rand(2) * params.screen_size: the points the model draws
\* (whole units, 0 <= x < width and 0 <= y < height).  With min_dist = 30:
\* every point of the arena is within 30 of (24, 16) or of (24, 48);
\* (6, 40) is at 30 exactly from (24, 16); (40, 0) is on the upper edge.
SamplePoints ==
    { <<24 * Unit, 16 * Unit>>, <<24 * Unit, 48 * Unit>>,
      <<24 * Unit, 32 * Unit>>, <<2 * Unit, 53 * Unit>>, <<40 * Unit, 0>>,
      <<6 * Unit, 40 * Unit>> }

\* the inputs of make_action the model draws
Accelerations == {-1, 0, 2}
Steerings == {-2, 0, 1}
DefaultDT == 1
TimeSteps == {DefaultDT, 11, -11}

\* ------------------------------------------------------------ numpy
\* np.clip(v, lo, hi)
Clip(v, lo, hi) == IF v < lo THEN lo ELSE IF v > hi THEN hi ELSE v

RECURSIVE SqrtFrom(_, _)
SqrtFrom(n, r) == IF (r + 1) * (r + 1) > n THEN r ELSE SqrtFrom(n, r + 1)

\* np.linalg.norm of a size (exact: the sizes have integer norms)
Norm(v) == SqrtFrom(v[1] * v[1] + v[2] * v[2], 0)

\* the square of np.linalg.norm(p - q), in Unit^2
Dist2(p, q) == (p[1] - q[1]) * (p[1] - q[1]) + (p[2] - q[2]) * (p[2] - q[2])

\* np.sin(rot / 180 * np.pi) in hundredths, rot in quarter degrees
\* (Bhaskara's rational approximation, exact at multiples of 90 degrees)
SinArc(r) == (4 * Trig * r * (720 - r)) \div (648000 - r * (720 - r))
Sin(rot) ==
    LET r == rot % 1440
    IN  IF r <= 720 THEN SinArc(r) ELSE -SinArc(r - 720)
Cos(rot) == Sin(rot + 360)

\* ------------------------------------------------------------ state
VARIABLES
    pc,                  \* "new", "sampling", "dynamics", "ready"
    args,                \* (screen_size, car_size, num_obstacles) while __init__ runs
    i,                   \* the obstacle loop's index
    obstacle_position,   \* the obstacle loop's last draw
    car_position, goal_position, obstacle_positions,
    car_rotation, car_speed,
    calls,               \* make_action calls made
    last_call,           \* the arguments of the last make_action call
    tentative,           \* new_x, new_y of the last call before the boundary tests
    result               \* what the last make_action call returned

vars == <<pc, args, i, obstacle_position, car_position, goal_position,
          obstacle_positions, car_rotation, car_speed, calls, last_call,
          tentative, result>>

\* ------------------------------------------------------------ __init__
car_dim == Norm(car_size) * Unit
goal_dim == Norm(goal_size) * Unit
obs_dim == Norm(obstacle_size) * Unit

min_dist == 2 * (car_dim + obs_dim + goal_dim)

\* the test passing at min_dist itself
FarOrAt(p, car, goal) ==
    /\ Dist2(p, car) >= min_dist * min_dist
    /\ Dist2(p, goal) >= min_dist * min_dist

\* the test without the car's distance
FarFromGoal(p, car, goal) == Dist2(p, goal) > min_dist * min_dist

\* car_dist > min_dist and goal_dist > min_dist
FarFromBoth(p, car, goal) ==
    /\ Dist2(p, car) > min_dist * min_dist
    /\ Dist2(p, goal) > min_dist * min_dist

\* range(params.num_obstacles)
LoopCount(a) == params_num_obstacles

Init ==
    /\ pc = "new"
    /\ args \in { <<screen_size, car_size, n>> : n \in 0 .. MaxArgObstacles }
    /\ i = 0
    /\ obstacle_position = Unset
    /\ car_position = Unset
    /\ goal_position = Unset
    /\ obstacle_positions = Unset
    /\ car_rotation = 0
    /\ car_speed = 0
    /\ calls = 0
    /\ last_call = Unset
    /\ tentative = Unset
    /\ result = Unset

\* lines 26-36: the positions of car and goal, the extents, the empty list
SetUp ==
    /\ pc = "new"
    /\ car_position' \in SamplePoints
    /\ goal_position' \in SamplePoints
    /\ obstacle_positions' = <<>>
    /\ i' = 0
    /\ pc' = IF 0 < LoopCount(args) THEN "sampling" ELSE "dynamics"
    /\ UNCHANGED <<args, obstacle_position, car_rotation, car_speed, calls,
                   last_call, tentative, result>>

\* lines 37-45: one pass of the while True loop
Sample ==
    /\ pc = "sampling"
    /\ \E p \in SamplePoints :
        /\ obstacle_position' = p
        /\ IF FarFromBoth(p, car_position, goal_position)
           THEN /\ obstacle_positions' = Append(obstacle_positions, p)
                /\ i' = i + 1
                /\ pc' = IF i + 1 < LoopCount(args) THEN "sampling" ELSE "dynamics"
           ELSE UNCHANGED <<obstacle_positions, i, pc>>
    /\ UNCHANGED <<args, car_position, goal_position, car_rotation, car_speed,
                   calls, last_call, tentative, result>>

\* lines 48-49, and the return: the constructor's arguments and locals end
InitDynamics ==
    /\ pc = "dynamics"
    /\ car_rotation' = 0
    /\ car_speed' = 0
    /\ pc' = "ready"
    /\ args' = Unset
    /\ i' = 0
    /\ obstacle_position' = Unset
    /\ UNCHANGED <<car_position, goal_position, obstacle_positions, calls,
                   last_call, tentative, result>>

\* ------------------------------------------------------------ make_action
\* the inputs used as given
UnclippedInput(u) == u

\* lines 52-53
ClipInput(u) == Clip(u, -1, 1)

\* the speed cut from below only
ClipSpeedBelow(v) == IF v < -1 * Half THEN -1 * Half ELSE v

\* line 57
ClipSpeed(v) == Clip(v, -1 * Half, 10 * Half)

\* lines 59-60
NewX(x, rot, speed, dT) == x - Sin(rot) * speed * dT
NewY(y, rot, speed, dT) == y - Cos(rot) * speed * dT

\* the coordinate held back at the upper edge only
BoundedAbove(c, limit) == IF c > limit THEN limit ELSE c

\* lines 62-74: one coordinate against [0, limit]
Outside(c, limit) == c > limit \/ c < 0

\* lines 64, 67, 71, 74
Bounded(c, limit) == IF c > limit THEN limit ELSE IF c < 0 THEN 0 ELSE c

\* the speed zeroed by the tests of x only
SpeedAtBoundaryX(speed, nx, ny) ==
    IF Outside(nx, screen_size[1]) THEN 0 ELSE speed

\* lines 62-74: the speed after both boundary tests
SpeedAtBoundary(speed, nx, ny) ==
    IF Outside(nx, screen_size[1]) \/ Outside(ny, screen_size[2]) THEN 0 ELSE speed

\* 0.5 * d (exact: every length is a multiple of Unit, which is even)
HalfOf(d) == d \div 2

\* lines 83-84, for one obstacle
Collides(pos, obstacle) ==
    Dist2(obstacle, pos) < HalfOf(car_dim + obs_dim) * HalfOf(car_dim + obs_dim)

\* lines 88-89
AtGoal(pos, goal) ==
    Dist2(goal, pos) < HalfOf(car_dim + goal_dim) * HalfOf(car_dim + goal_dim)

\* the collision branch returning done = False
OutcomeUndone(pos, obstacles, goal) ==
    IF \E k \in 1 .. Len(obstacles) : Collides(pos, obstacles[k])
    THEN <<reward_collision, FALSE>>
    ELSE IF AtGoal(pos, goal)
         THEN <<reward_goal, TRUE>>
         ELSE <<reward_timestep, FALSE>>

\* the goal tested before the obstacles
OutcomeGoalFirst(pos, obstacles, goal) ==
    IF AtGoal(pos, goal)
    THEN <<reward_goal, TRUE>>
    ELSE IF \E k \in 1 .. Len(obstacles) : Collides(pos, obstacles[k])
         THEN <<reward_collision, TRUE>>
         ELSE <<reward_timestep, FALSE>>

\* lines 82-92
Outcome(pos, obstacles, goal) ==
    IF \E k \in 1 .. Len(obstacles) : Collides(pos, obstacles[k])
    THEN <<reward_collision, TRUE>>
    ELSE IF AtGoal(pos, goal)
         THEN <<reward_goal, TRUE>>
         ELSE <<reward_timestep, FALSE>>

\* lines 51-92 as a function of the object's state and the arguments
MakeAction(pos, rot, speed, obstacles, goal, acceleration, steering_angle, dT) ==
    LET a  == ClipInput(acceleration)
        s  == ClipInput(steering_angle)
        v  == ClipSpeed(speed + a * dT)
        nx == NewX(pos[1], rot, v, dT)
        ny == NewY(pos[2], rot, v, dT)
        v2 == SpeedAtBoundary(v, nx, ny)
        p2 == <<Bounded(nx, screen_size[1]), Bounded(ny, screen_size[2])>>
    IN  [ car_position |-> p2,
          car_speed    |-> v2,
          car_rotation |-> rot - v2 * s * dT,
          tentative    |-> <<nx, ny>>,
          result       |-> Outcome(p2, obstacles, goal) ]

StepWithin(limit) ==
    /\ pc = "ready"
    /\ calls < limit
    /\ \E a \in Accelerations, s \in Steerings, dT \in TimeSteps :
        LET n == MakeAction(car_position, car_rotation, car_speed,
                            obstacle_positions, goal_position, a, s, dT)
        IN  /\ car_position' = n.car_position
            /\ car_speed' = n.car_speed
            /\ car_rotation' = n.car_rotation
            /\ tentative' = n.tentative
            /\ result' = n.result
            /\ last_call' = <<a, s, dT>>
    /\ calls' = calls + 1
    /\ UNCHANGED <<pc, args, i, obstacle_position, goal_position,
                   obstacle_positions>>

Step == StepWithin(MaxCalls)

Next == SetUp \/ Sample \/ InitDynamics \/ Step

Spec == Init /\ [][Next]_vars

\* The constructor runs on, and a draw that can be accepted is not missed
\* for ever.
AcceptedSample == Sample /\ obstacle_positions' # obstacle_positions
FairSpec == Spec /\ WF_vars(Next) /\ SF_vars(AcceptedSample)

\* ------------------------------------------------------------ injected state
\* make_action on an object whose attributes were assigned directly (the
\* attributes are public): any positions, heading and speed.
InjectedGoals == { <<24 * Unit, 48 * Unit>>, <<24 * Unit, 32 * Unit>> }
InjectedObstacles == { <<24 * Unit, 48 * Unit>>, <<2 * Unit, 53 * Unit>> }
InjectedRotations == {0, 360, -360, 720}
InjectedSpeeds == {-1 * Half, 0, 19}

InitInjected ==
    /\ pc = "ready"
    /\ args = Unset
    /\ i = 0
    /\ obstacle_position = Unset
    /\ car_position \in SamplePoints
    /\ goal_position \in InjectedGoals
    /\ obstacle_positions \in [1 .. params_num_obstacles -> InjectedObstacles]
    /\ car_rotation \in InjectedRotations
    /\ car_speed \in InjectedSpeeds
    /\ calls = 0
    /\ last_call = Unset
    /\ tentative = Unset
    /\ result = Unset

InjectedStep == StepWithin(MaxInjectedCalls)

InjectedSpec == InitInjected /\ [][InjectedStep]_vars

\* ------------------------------------------------------------ properties
Ready == pc = "ready"
Called == pc = "ready" /\ calls > 0

AnyCollision ==
    \E k \in 1 .. Len(obstacle_positions) :
        Collides(car_position, obstacle_positions[k])

\* C1: every make_action call returns one of (reward_collision, True),
\* (reward_goal, True), (reward_timestep, False), and done is True exactly
\* when the car is in collision range of an obstacle or in range of the goal
\* after the position update (a terminal branch was taken).
ThreeOutcomes ==
    Called =>
        /\ result \in { <<reward_collision, TRUE>>, <<reward_goal, TRUE>>,
                        <<reward_timestep, FALSE>> }
        /\ result[2] <=> (AnyCollision \/ AtGoal(car_position, goal_position))
        /\ ~result[2] <=> result[1] = reward_timestep

CollisionReturned == Called /\ result = <<reward_collision, TRUE>>

\* C2: from construction on, car_speed is within [-1, 10] after every call,
\* whatever the acceleration, steering and dT.
SpeedInRange ==
    Ready => (-1 * Half <= car_speed /\ car_speed <= 10 * Half)

\* the speed was cut to 10 (no sum of the increments drawn is 10)
SpeedCutToTen == Called /\ car_speed = 10 * Half

\* C3: the car position is inside the arena rectangle in every state that
\* has one.
InsideArena ==
    car_position # Unset =>
        /\ 0 <= car_position[1] /\ car_position[1] <= screen_size[1]
        /\ 0 <= car_position[2] /\ car_position[2] <= screen_size[2]

PutBackOnEdge ==
    /\ Called
    /\ \/ tentative[2] < 0 /\ car_position[2] = 0
       \/ tentative[2] > screen_size[2] /\ car_position[2] = screen_size[2]

\* C4: while the constructor places obstacles and when it has finished,
\* every obstacle placed is farther than min_dist from the car's initial
\* position and from the goal.
ObstaclesClear ==
    (pc \in {"sampling", "dynamics"} \/ (Ready /\ calls = 0)) =>
        \A k \in 1 .. Len(obstacle_positions) :
            /\ Dist2(obstacle_positions[k], car_position) > min_dist * min_dist
            /\ Dist2(obstacle_positions[k], goal_position) > min_dist * min_dist

Constructed == Ready /\ calls = 0 /\ Len(obstacle_positions) > 0

\* C5: when the obstacle loop has finished, the number of obstacles placed
\* is the num_obstacles argument of the constructor.
ObstacleCountIsArgument ==
    pc = "dynamics" => Len(obstacle_positions) = args[3]

\* C6: a car in collision range of an obstacle gets (reward_collision, True)
\* also when it is in range of the goal; (reward_goal, True) is returned only
\* in range of the goal and in collision range of no obstacle.
CollisionBeforeGoal ==
    Called =>
        /\ AnyCollision => result = <<reward_collision, TRUE>>
        /\ result = <<reward_goal, TRUE>> =>
               (AtGoal(car_position, goal_position) /\ ~AnyCollision)

CollisionAtGoal ==
    /\ Called
    /\ AnyCollision
    /\ AtGoal(car_position, goal_position)
    /\ result = <<reward_collision, TRUE>>

\* C7: inputs out of range saturate: every call make_action(a, s, dT) leaves
\* the state (position, speed, heading) and returns the result that
\* make_action(clip(a, -1, 1), clip(s, -1, 1), dT) gives from the same state;
\* acceleration 2 adds 1 * dT to the speed before the speed is cut.
Saturates ==
    [][calls' = calls + 1 =>
           LET a  == last_call'[1]
               s  == last_call'[2]
               dT == last_call'[3]
               n  == MakeAction(car_position, car_rotation, car_speed,
                                obstacle_positions, goal_position,
                                Clip(a, -1, 1), Clip(s, -1, 1), dT)
           IN  /\ car_position' = n.car_position
               /\ car_speed' = n.car_speed
               /\ car_rotation' = n.car_rotation
               /\ result' = n.result
               /\ a = 2 =>
                      car_speed' \in {0, Clip(car_speed + 1 * dT, -1 * Half, 10 * Half)}]_vars

SaturatedCall ==
    /\ Called
    /\ last_call[1] = 2
    /\ last_call[2] = -2
    /\ car_speed # 0
    /\ car_rotation \notin InjectedRotations

\* C8: construction terminates: it becomes ready, or fails.
ConstructionTerminates == <>(pc = "ready" \/ pc = "failed")

\* C9 as stated: a call whose tentative new x or y reaches or passes an edge
\* ends with car_speed 0.
ReachedEdge(t) ==
    \/ t[1] >= screen_size[1] \/ t[1] <= 0
    \/ t[2] >= screen_size[2] \/ t[2] <= 0

ContactZeroesSpeed == Called /\ ReachedEdge(tentative) => car_speed = 0

\* C9 as amended: a call whose tentative new x or y passes an edge (is beyond
\* it) ends with the car on that edge and car_speed 0, and leaves the heading
\* as it was (the heading is updated with the zeroed speed).
PassedEdge(t) ==
    \/ t[1] > screen_size[1] \/ t[1] < 0
    \/ t[2] > screen_size[2] \/ t[2] < 0

OnPassedEdge(t, p) ==
    /\ t[1] > screen_size[1] => p[1] = screen_size[1]
    /\ t[1] < 0 => p[1] = 0
    /\ t[2] > screen_size[2] => p[2] = screen_size[2]
    /\ t[2] < 0 => p[2] = 0

PassingZeroesSpeed ==
    [][(calls' = calls + 1 /\ PassedEdge(tentative')) =>
           /\ car_speed' = 0
           /\ car_rotation' = car_rotation
           /\ OnPassedEdge(tentative', car_position')]_vars

StoppedWhileSteering ==
    /\ Called
    /\ PassedEdge(tentative)
    /\ last_call[1] # 0
    /\ last_call[2] # 0
    /\ car_speed = 0

\* C10: the first make_action call on a constructed environment, made with
\* the default dT, leaves the car out of collision range of every obstacle
\* and does not return the collision outcome.
FirstCallNoCollision ==
    (Called /\ calls = 1 /\ last_call[3] = DefaultDT) =>
        /\ result # <<reward_collision, TRUE>>
        /\ \A k \in 1 .. Len(obstacle_positions) :
               Dist2(obstacle_positions[k], car_position)
                   >= HalfOf(car_dim + obs_dim) * HalfOf(car_dim + obs_dim)

FirstCallMoved ==
    /\ Called
    /\ calls = 1
    /\ last_call[3] = DefaultDT
    /\ Len(obstacle_positions) > 0
    /\ car_speed # 0

====
